---- MODULE Spec2Model ----
(***************************************************************************)
(* A model of pytube/request.py: the chunked range fetch with retry        *)
(* (stream), the sequential-segment fetch built on it (seq_stream) and the *)
(* memoized size resolvers (filesize, seq_filesize).                       *)
(*                                                                         *)
(* Bytes are not modelled one by one.  A chunk is the closed interval      *)
(* [lo, hi] of byte offsets of the resource it was read from, so that the  *)
(* real chunk size (9437184) is kept.  The body of segment 0 is a sequence *)
(* of tokens (a CRLF, one other byte, or the text "Segment-Count: " with   *)
(* its digits), each with its length in bytes.                             *)
(***************************************************************************)
EXTENDS Integers, Sequences, FiniteSets, TLC

VARIABLES
    sizes,          \* the server: sq -> total size in bytes of that resource
    body,           \* the server: the tokens of segment 0's body (seq_stream)
    max_retries,    \* stream's parameter
    cur,            \* the sq of the URL the running stream() was called with
    pc,             \* stream: "loop" | "retry" | "probe" | "read" | "done" | "error" | "idle"
    file_size,      \* stream's local file_size
    downloaded,     \* stream's local downloaded
    stop_pos,       \* stream's local stop_pos
    tries,          \* stream's local tries
    response,       \* stream's local response: [lo, n]: n unread bytes from offset lo
    err,            \* the exception that ended the fetch ("" while none)
    iter,           \* history: iterations of stream's outer loop entered so far
    open,           \* history: the locals that hold a response whose body is unread
    requests,       \* history: the HTTP requests of the current window, in order
    windows,        \* history: the windows this stream() has requested, each once
    retried,        \* history: the failures this stream() has swallowed
    probes,         \* history: the size probes this stream() has issued
    yielded,        \* history: every chunk handed to the consumer, in order
    dl_seen,        \* history: the value of downloaded after each yield of this stream()
    clean,          \* history: no request and no read of this call has failed so far
    spc,            \* seq_stream: "none" | "seg0" | "loop" | "seg" | "done" | "error"
    seq_num,        \* seq_stream's local seq_num
    segment_count,  \* seq_stream's local segment_count (Unbound until assigned)
    segment_data,   \* seq_stream's local segment_data, as the chunks added to it
    started,        \* history: the sq of every stream() started, in order
    finished,       \* history: the segments whose stream() ran to exhaustion
    cache_filesize,     \* filesize's lru_cache: [url, value], least recently used first
    cache_seq_filesize, \* seq_filesize's lru_cache, likewise
    heads,          \* the server: what the GET for sq=0 (at 0) and the HEAD for each
                    \* later segment (at its sq) end in, for seq_filesize
    last,           \* history: the last call of filesize / seq_filesize and its outcome
    known,          \* history: fn -> url -> the value the last call for it returned
    since           \* history: fn -> url -> the other URLs that returned a value since

streamVars == <<cur, pc, file_size, downloaded, stop_pos, tries, response, err,
                iter, open, requests, windows, retried, probes, yielded, dl_seen,
                clean>>
seqVars == <<spc, seq_num, segment_count, segment_data, started, finished>>
envVars == <<sizes, body, max_retries>>
sizeVars == <<cache_filesize, cache_seq_filesize, heads, last, known, since>>

(***************************************************************************)
(* Constants of the program and bounds of the model.                       *)
(***************************************************************************)
default_range_size == 9437184

\* A local name that no assignment has bound yet.
Unbound == -1

\* The largest number of range windows a modelled resource needs.
MaxWindows == 3
\* The largest max_retries a fetch is started with.
MaxRetries == 2
\* The largest segment count a segment-0 body advertises.
MaxSeg == 2

\* The value at which the history counters (iter, probes, retried, the
\* length of windows) stop counting, so that a stream() that goes round its
\* loop without end goes round a cycle of states.
MaxIters == MaxWindows + 2

Min(a, b) == IF a < b THEN a ELSE b

\* Resource sizes around the multiples of the chunk size.
Sizes ==
    { n * default_range_size + d :
        n \in 0 .. (MaxWindows - 1), d \in {0, 1, default_range_size \div 2} }


(***************************************************************************)
(* The body of segment 0 and the search for its Segment-Count line.        *)
(***************************************************************************)

CRLF == [t |-> "crlf", d |-> <<>>]
\* One byte that is neither part of a CRLF nor of a Segment-Count text.
X == [t |-> "x", d |-> <<>>]
\* The text "Segment-Count: " followed by the decimal digits d.
SC(d) == [t |-> "sc", d |-> d]

\* len() of one token, in bytes.
TokLen(tok) ==
    CASE tok.t = "crlf" -> 2
      [] tok.t = "x" -> 1
      [] tok.t = "sc" -> 15 + Len(tok.d)

RECURSIVE ByteLen(_)
\* len() of a body.
ByteLen(b) == IF b = <<>> THEN 0 ELSE TokLen(b[1]) + ByteLen(Tail(b))

RECURSIVE TokensIn(_, _, _, _)
\* The tokens of b, whose first byte is at offset off, that lie in [lo, hi].
TokensIn(b, off, lo, hi) ==
    IF b = <<>> THEN <<>>
    ELSE LET rest == TokensIn(Tail(b), off + TokLen(b[1]), lo, hi) IN
         IF off >= lo /\ off + TokLen(b[1]) - 1 <= hi
         THEN <<b[1]>> \o rest ELSE rest

RECURSIVE BytesOf(_, _)
\* The bytes of resource b that a sequence of chunks holds.
BytesOf(b, chunks) ==
    IF chunks = <<>> THEN <<>>
    ELSE TokensIn(b, 0, chunks[1].lo, chunks[1].hi) \o BytesOf(b, Tail(chunks))

RECURSIVE Split(_)
\* data.split(b'\r\n'): the lines between the CRLFs, empty ones included.
Split(b) ==
    IF \A i \in 1 .. Len(b) : b[i].t # "crlf" THEN <<b>>
    ELSE LET k == CHOOSE i \in 1 .. Len(b) :
                    b[i].t = "crlf" /\ \A j \in 1 .. (i - 1) : b[j].t # "crlf"
         IN <<SubSeq(b, 1, k - 1)>> \o Split(SubSeq(b, k + 1, Len(b)))

RECURSIVE DigitsToInt(_)
\* int() of a run of decimal digits.
DigitsToInt(d) ==
    IF d = <<>> THEN 0 ELSE 10 * DigitsToInt(SubSeq(d, 1, Len(d) - 1)) + d[Len(d)]

\* pattern.search(line): whether the line holds a match.
Matches(line) == \E i \in 1 .. Len(line) : line[i].t = "sc"

\* match.group(1) of pattern.search(line): the digits of the leftmost match.
Group1(line) ==
    line[CHOOSE i \in 1 .. Len(line) :
            line[i].t = "sc" /\ \A j \in 1 .. (i - 1) : line[j].t # "sc"].d

RECURSIVE ScanLines(_, _)
\* for line in stream_info: if match: segment_count = int(group(1)),
\* started with segment_count = sc.
ScanLines(lines, sc) ==
    IF lines = <<>> THEN sc
    ELSE ScanLines(Tail(lines),
            IF Matches(lines[1]) THEN DigitsToInt(Group1(lines[1])) ELSE sc)

(***************************************************************************)
(* The remote server and the transport (_execute_request, response.read).  *)
(***************************************************************************)

\* The bytes a range request for [lo, hi] of resource sq is answered with:
\* those of the resource inside the window, none when it lies beyond the end.
Serve(sq, lo, hi) ==
    [lo |-> lo,
     n  |-> IF lo >= sizes[sq] THEN 0 ELSE Min(hi, sizes[sq] - 1) - lo + 1]

\* What one windowed _execute_request can end in: a response, a URLError
\* whose reason is socket.timeout, an http.client.IncompleteRead, or any
\* other URLError.
RequestOutcomes == {"ok", "timeout", "incomplete", "urlerror"}

\* What the probe can end in: a response with a Content-Length that int()
\* parses, a response without the header, a response whose header int()
\* rejects, a timeout, or any other URLError.
ProbeOutcomes == {"ok", "missing", "unparseable", "timeout", "urlerror"}

\* What response.read() of an unread body can end in.
ReadOutcomes == {"ok", "timeout", "incomplete"}

NoResponse == [lo |-> 0, n |-> 0]

(***************************************************************************)
(* stream(url, timeout, max_retries)                                       *)
(***************************************************************************)

\* A loop test that stops one byte early.
LoopCond_early(d, fs) == d + 1 < fs

\* while downloaded < file_size
LoopCond(d, fs) == d < fs

\* A window end that ignores file_size.
StopPos_unclamped(d, fs) == d + default_range_size - 1

\* stop_pos = min(downloaded + default_range_size, file_size) - 1
StopPos(d, fs) == Min(d + default_range_size, fs) - 1

\* A budget test that allows one attempt too many.
BudgetExhausted_late(t, m) == t > 1 + m

\* if tries >= 1 + max_retries: raise MaxRetriesExceeded()
BudgetExhausted(t, m) == t >= 1 + m

\* A retry loop that swallows every failure of the request.
Recoverable_any(o) == o # "ok"

\* The failures of _execute_request the retry loop swallows.
Recoverable(o) == o \in {"timeout", "incomplete"}

\* if file_size == default_range_size: (issue the probe)
ProbeDue(fs) == fs = default_range_size

\* An accumulation that counts the window, not the bytes read.
Advance_window(d, n) == d + default_range_size

\* if chunk: downloaded += len(chunk)
Advance(d, n) == d + n

\* The record of one request.  kind "range" is a windowed request for
\* [lo, hi]; kind "probe" is the request for range=0-99999999999, whose
\* upper end is beyond the integers of the checker and is left out (hi = 0).
Logged(kind, outcome) ==
    [kind |-> kind, sq |-> cur, it |-> iter, dl |-> downloaded,
     lo |-> IF kind = "range" THEN downloaded ELSE 0,
     hi |-> IF kind = "range" THEN stop_pos ELSE 0,
     outcome |-> outcome, pending |-> open]

\* A history counter after one more event.
Count(n) == Min(n + 1, MaxIters)

\* A read that leaves the body of the response unread.
Drained_not(o, name) == o

\* The locals holding an unread response, after response.read() has read
\* the body of one of them to its end.
Drained(o, name) == o \ {name}

\* A probe that takes the offset of the last byte for the size.
ProbedSize_last(sq) == sizes[sq] - 1

\* file_size = int(resp.info()["Content-Length"]) of the probe for
\* range=0-99999999999: the whole resource lies in that range.
ProbedSize(sq) == sizes[sq]

\* The state of a stream() generator at its first pull.
StartStream(sq) ==
    /\ cur' = sq
    /\ pc' = "loop"
    /\ file_size' = default_range_size
    /\ downloaded' = 0
    /\ stop_pos' = 0
    /\ tries' = 0
    /\ response' = NoResponse
    /\ iter' = 0
    /\ open' = {}
    /\ dl_seen' = <<>>
    /\ requests' = <<>>
    /\ windows' = <<>>
    /\ retried' = 0
    /\ probes' = 0
    /\ started' = Append(started, sq)

\* The test of the outer loop: a new window, or the final return.
LoopTest ==
    /\ pc = "loop"
    /\ IF LoopCond(downloaded, file_size)
       THEN /\ stop_pos' = StopPos(downloaded, file_size)
            /\ tries' = 0
            /\ iter' = Count(iter)
            /\ requests' = <<>>
            /\ pc' = "retry"
       ELSE /\ pc' = "done"
            /\ UNCHANGED <<stop_pos, tries, iter, requests>>
    /\ UNCHANGED <<cur, file_size, downloaded, response, err, open, windows,
                   retried, probes, yielded, dl_seen, clean>>

\* The retry loop finds the budget used up.
RaiseMaxRetries ==
    /\ pc = "retry"
    /\ BudgetExhausted(tries, max_retries)
    /\ pc' = "error"
    /\ err' = "MaxRetriesExceeded"
    /\ UNCHANGED <<cur, file_size, downloaded, stop_pos, tries, response, iter,
                   open, requests, windows, retried, probes, yielded, dl_seen,
                   clean>>

\* One attempt of the retry loop: the windowed request and what follows it.
Attempt ==
    /\ pc = "retry"
    /\ ~BudgetExhausted(tries, max_retries)
    /\ \E o \in RequestOutcomes :
        /\ requests' = Append(requests, Logged("range", o))
        /\ windows' = IF requests = <<>> /\ Len(windows) < MaxIters
                       THEN Append(windows, [lo |-> downloaded, hi |-> stop_pos])
                       ELSE windows
        /\ clean' = (clean /\ o = "ok")
        /\ IF o = "ok"
           THEN /\ response' = Serve(cur, downloaded, stop_pos)
                /\ open' = open \cup {"response"}
                /\ pc' = "probe"
                /\ UNCHANGED <<tries, err, retried>>
           ELSE IF Recoverable(o)
           THEN /\ tries' = tries + 1
                /\ retried' = Count(retried)
                /\ UNCHANGED <<response, open, pc, err>>
           ELSE /\ pc' = "error"
                /\ err' = "URLError"
                /\ UNCHANGED <<response, open, tries, retried>>
    /\ UNCHANGED <<cur, file_size, downloaded, stop_pos, iter, probes, yielded,
                   dl_seen>>

\* The size probe, issued while file_size still equals the placeholder.
Probe ==
    /\ pc = "probe"
    /\ IF ProbeDue(file_size)
       THEN /\ probes' = Count(probes)
            /\ \E o \in ProbeOutcomes :
                /\ requests' = Append(requests, Logged("probe", o))
                /\ clean' = (clean /\ o = "ok")
                /\ open' = IF o \in {"ok", "missing", "unparseable"}
                           THEN open \cup {"resp"} ELSE open
                /\ CASE o = "ok" ->
                          /\ file_size' = ProbedSize(cur)
                          /\ pc' = "read"
                          /\ UNCHANGED err
                     [] o = "unparseable" ->
                          \* int() raises ValueError: caught and logged
                          /\ pc' = "read"
                          /\ UNCHANGED <<file_size, err>>
                     [] o = "missing" ->
                          \* info()[...] is None: int(None) raises TypeError
                          /\ pc' = "error"
                          /\ err' = "TypeError"
                          /\ UNCHANGED file_size
                     [] o = "timeout" ->
                          /\ pc' = "error"
                          /\ err' = "timeout"
                          /\ UNCHANGED file_size
                     [] o = "urlerror" ->
                          /\ pc' = "error"
                          /\ err' = "URLError"
                          /\ UNCHANGED file_size
       ELSE /\ pc' = "read"
            /\ UNCHANGED <<file_size, err, open, requests, clean, probes>>
    /\ UNCHANGED <<cur, downloaded, stop_pos, tries, response, iter, windows,
                   retried, yielded, dl_seen>>

\* One response.read() of the drain loop, and the yield of what it returned.
Read ==
    /\ pc = "read"
    /\ \E o \in ReadOutcomes :
        /\ o # "ok" => response.n > 0
        /\ clean' = (clean /\ o = "ok")
        /\ IF o = "ok"
           THEN IF response.n = 0
                THEN \* if not chunk: break
                     /\ pc' = "loop"
                     /\ open' = Drained(open, "response")
                     /\ UNCHANGED <<downloaded, response, yielded, dl_seen,
                                    segment_data, err>>
                ELSE /\ downloaded' = Advance(downloaded, response.n)
                     /\ yielded' = Append(yielded,
                            [sq |-> cur, lo |-> response.lo,
                             hi |-> response.lo + response.n - 1])
                     /\ dl_seen' = Append(dl_seen, downloaded')
                     /\ segment_data' =
                            IF spc = "seg0"
                            THEN Append(segment_data,
                                    [lo |-> response.lo,
                                     hi |-> response.lo + response.n - 1])
                            ELSE segment_data
                     /\ response' = [response EXCEPT !.n = 0]
                     /\ open' = Drained(open, "response")
                     /\ UNCHANGED <<pc, err>>
           ELSE /\ pc' = "error"
                /\ err' = IF o = "timeout" THEN "timeout" ELSE "IncompleteRead"
                /\ UNCHANGED <<downloaded, response, open, yielded, dl_seen,
                               segment_data>>
    /\ UNCHANGED <<cur, file_size, stop_pos, tries, iter, requests, windows,
                   retried, probes>>

\* The segment-0 bodies a server is modelled to send.
Bodies ==
    {<<>>, <<X>>, <<X, CRLF, X>>}
    \cup {<<SC(<<n>>)>> : n \in 0 .. MaxSeg}
    \cup {<<X, CRLF, SC(<<n>>), CRLF, X>> : n \in 0 .. MaxSeg}
    \cup {<<SC(<<a>>), CRLF, SC(<<b>>)>> : a \in 0 .. MaxSeg, b \in 1 .. MaxSeg}
    \cup {<<SC(<<a>>), X, SC(<<b>>)>> : a \in 1 .. MaxSeg, b \in 0 .. MaxSeg}
    \cup {<<X, SC(<<0, n>>), CRLF>> : n \in 1 .. MaxSeg}

\* The sizes of the segments after segment 0.
SegSizes == {1, default_range_size + 1}

\* The values of max_retries seq_stream is started with.
SeqRetries == {0, 1}

(***************************************************************************)
(* seq_stream(url, timeout, max_retries)                                   *)
(***************************************************************************)

\* while seq_num <= segment_count
SeqLoopCond(n, count) == n <= count

\* A step that skips a segment.
NextSeqNum_skip(n) == n + 2

\* seq_num += 1
NextSeqNum(n) == n + 1

\* Segment 0 has been fetched to the end: find the segment count.
SeqParse ==
    /\ spc = "seg0"
    /\ pc = "done"
    /\ finished' = finished \cup {cur}
    /\ segment_count' = ScanLines(Split(BytesOf(body, segment_data)), Unbound)
    /\ seq_num' = 1
    /\ spc' = "loop"
    /\ UNCHANGED <<envVars, streamVars, segment_data, started, sizeVars>>

\* The test of the segment loop: the next segment's stream(), or the return.
\* Reading segment_count while nothing has bound it raises UnboundLocalError.
SeqLoop ==
    /\ spc = "loop"
    /\ IF segment_count = Unbound
       THEN /\ spc' = "error"
            /\ err' = "UnboundLocalError"
            /\ UNCHANGED <<cur, pc, file_size, downloaded, stop_pos, tries,
                           response, iter, open, dl_seen, requests, windows,
                           retried, probes, started>>
       ELSE IF SeqLoopCond(seq_num, segment_count)
       THEN /\ StartStream(seq_num)
            /\ spc' = "seg"
            /\ UNCHANGED err
       ELSE /\ spc' = "done"
            /\ UNCHANGED <<cur, pc, file_size, downloaded, stop_pos, tries,
                           response, iter, open, dl_seen, err, requests,
                           windows, retried, probes, started>>
    /\ UNCHANGED <<envVars, yielded, clean, seq_num, segment_count,
                   segment_data, finished, sizeVars>>

\* yield from stream(...) has ended: on to the next segment.
SeqAdvance ==
    /\ spc = "seg"
    /\ pc = "done"
    /\ finished' = finished \cup {cur}
    /\ seq_num' = NextSeqNum(seq_num)
    /\ spc' = "loop"
    /\ UNCHANGED <<envVars, streamVars, segment_count, segment_data, started,
                   sizeVars>>

\* An exception of the running stream() leaves seq_stream as it is.
SeqPropagate ==
    /\ spc \in {"seg0", "seg"}
    /\ pc = "error"
    /\ spc' = "error"
    /\ UNCHANGED <<envVars, streamVars, seq_num, segment_count, segment_data,
                   started, finished, sizeVars>>

(***************************************************************************)
(* functools.lru_cache, as filesize and seq_filesize are wrapped in it.    *)
(***************************************************************************)

\* The capacity of each cache.  lru_cache() keeps 128 entries; the model
\* keeps this many, and every property is stated in terms of it.
lru_maxsize == 2

\* The URLs the resolvers are called with: one more than a cache holds.
URLs == 1 .. (lru_maxsize + 1)

Functions == {"filesize", "seq_filesize"}

\* Whether the cache holds an entry for u.
Cached(cache, u) == \E i \in 1 .. Len(cache) : cache[i].url = u

\* The value stored for u.
Stored(cache, u) == cache[CHOOSE i \in 1 .. Len(cache) : cache[i].url = u].value

\* A hit that leaves the order of the entries alone.
Touch_stale(cache, u) == cache

\* A hit: the entry of u becomes the most recently used.
Touch(cache, u) ==
    SelectSeq(cache, LAMBDA e : e.url # u) \o SelectSeq(cache, LAMBDA e : e.url = u)

\* A miss that stores nothing.
Store_none(cache, u, v) == cache

\* A returned miss: the result is stored, in place of the least recently
\* used entry when the cache is full.
Store(cache, u, v) ==
    Append(IF Len(cache) >= lru_maxsize THEN Tail(cache) ELSE cache,
           [url |-> u, value |-> v])

(***************************************************************************)
(* head(url), filesize(url), seq_filesize(url)                             *)
(***************************************************************************)

\* The Content-Length values a server answers a HEAD request with.
ContentLengths == {1, default_range_size + 1}

\* What int(head(url)['content-length']) can end in: the header's value,
\* KeyError (no such header), ValueError (not an integer), or the URLError
\* of the request.
HeadOutcomes ==
    {[o |-> "ok", n |-> v] : v \in ContentLengths}
    \cup {[o |-> e, n |-> 0] : e \in {"KeyError", "ValueError", "URLError"}}

Returned(v, reqs) == [status |-> "ok", value |-> v, err |-> "", reqs |-> reqs]
Raised(e, reqs) == [status |-> "error", value |-> 0, err |-> e, reqs |-> reqs]

\* The body of filesize: one HEAD request for the URL as it is.
filesize(h) ==
    LET reqs == <<[method |-> "HEAD", sq |-> Unbound]>> IN
    IF h.o = "ok" THEN Returned(h.n, reqs) ELSE Raised(h.o, reqs)

\* regex_search(segment_regex, line, 1) raises RegexMatchError when the
\* line holds no match; seq_filesize keeps the count it had.
regex_search(line, sc) == IF Matches(line) THEN DigitsToInt(Group1(line)) ELSE sc

RECURSIVE ScanCount(_, _)
\* for line in stream_info: try: segment_count = int(regex_search(...))
ScanCount(lines, sc) ==
    IF lines = <<>> THEN sc
    ELSE ScanCount(Tail(lines), regex_search(lines[1], sc))

\* A test that never reports the missing pattern.
NoCount_never(count) == FALSE

\* if segment_count == 0: raise RegexMatchError('seq_filesize', segment_regex)
NoCount(count) == count = 0

RECURSIVE HeadLoop(_, _, _, _, _)
\* while seq_num <= segment_count: total_filesize += int(head(url)[...])
HeadLoop(hs, count, n, total, reqs) ==
    IF ~(n <= count) THEN Returned(total, reqs)
    ELSE LET reqs2 == Append(reqs, [method |-> "HEAD", sq |-> n]) IN
         IF hs[n].o = "ok"
         THEN HeadLoop(hs, count, n + 1, total + hs[n].n, reqs2)
         ELSE Raised(hs[n].o, reqs2)

\* What the GET for sq=0 and the read of its body can end in.
GetOutcomes == {[o |-> "ok", n |-> 0], [o |-> "URLError", n |-> 0]}

\* The body of seq_filesize: hs[0] is what the GET for sq=0 ends in, b the
\* body it is answered with, hs[k] what the HEAD for segment k ends in.
seq_filesize(b, hs) ==
    LET reqs == <<[method |-> "GET", sq |-> 0]>> IN
    IF hs[0].o # "ok" THEN Raised(hs[0].o, reqs)
    ELSE LET total == ByteLen(b)
             count == ScanCount(Split(b), 0)
         IN IF NoCount(count)
            THEN Raised("RegexMatchError('seq_filesize', segment_regex)", reqs)
            ELSE HeadLoop(hs, count, 1, total, reqs)

\* No call of a resolver has been made.
NoCall ==
    [fn |-> "", url |-> 0, status |-> "", value |-> 0, err |-> "", reqs |-> <<>>,
     before |-> Unbound, others |-> 0]

NoSizeCalls ==
    /\ cache_filesize = <<>>
    /\ cache_seq_filesize = <<>>
    /\ heads = [k \in 0 .. MaxSeg |-> [o |-> "ok", n |-> 0]]
    /\ last = NoCall
    /\ known = [f \in Functions |-> [u \in URLs |-> Unbound]]
    /\ since = [f \in Functions |-> [u \in URLs |-> {}]]

\* The record of a call: what it ended in, the value the last call of f for
\* this URL returned (Unbound when none did), and how many other URLs have
\* returned a value from f since.
Called(f, u, r) ==
    [fn |-> f, url |-> u, status |-> r.status, value |-> r.value, err |-> r.err,
     reqs |-> r.reqs,
     before |-> known[f][u],
     others |-> Cardinality(since[f][u])]

\* The history after f(u) ended in r.
Remember(f, u, r) ==
    /\ last' = Called(f, u, r)
    /\ IF r.status = "ok"
       THEN /\ known' = [known EXCEPT ![f][u] = r.value]
            /\ since' = [since EXCEPT ![f] =
                    [v \in URLs |-> IF v = u THEN {} ELSE since[f][v] \cup {u}]]
       ELSE UNCHANGED <<known, since>>

\* hs with the GET for sq=0 ending in g and every HEAD in h.
Answers(g, h) == [k \in 0 .. MaxSeg |-> IF k = 0 THEN g ELSE h]

Ok(n) == [o |-> "ok", n |-> n]

Failed(e) == [o |-> e, n |-> 0]

\* The lengths the resource behind URL u has: each URL has a length of its
\* own, and the resource behind URL 1 has two, one at a time.
Lengths(u) == IF u = 1 THEN {1, default_range_size + 1} ELSE {u}

\* What a HEAD request for the resource behind URL u is modelled to end in:
\* its length, or one of the failures.
HeadServers(u) ==
    {Ok(n) : n \in Lengths(u)}
    \cup {Failed("KeyError"), Failed("ValueError"), Failed("URLError")}

\* The servers a call of the cached seq_filesize for URL u is modelled to
\* reach: the body of segment 0 and what the requests end in.
SeqServers(u) ==
    {[b |-> <<X>>, hs |-> Answers(Ok(0), Ok(u))],
     [b |-> <<SC(<<1>>)>>, hs |-> Answers(Failed("URLError"), Ok(u))]}
    \cup {[b |-> <<SC(<<1>>)>>, hs |-> Answers(Ok(0), h)] : h \in HeadServers(u)}

\* A miss that stores whatever the call ended in.
Miss_always(cache, u, r) == Store(cache, u, r.value)

\* A miss: the wrapper stores the result once the function has returned; an
\* exception leaves the wrapper before anything is stored.
Miss(cache, u, r) == IF r.status = "ok" THEN Store(cache, u, r.value) ELSE cache

\* A call of the lru_cache wrapper of filesize.
CallFilesize(u) ==
    /\ IF Cached(cache_filesize, u)
       THEN /\ cache_filesize' = Touch(cache_filesize, u)
            /\ Remember("filesize", u, Returned(Stored(cache_filesize, u), <<>>))
       ELSE \E h \in HeadServers(u) :
            LET r == filesize(h) IN
            /\ cache_filesize' = Miss(cache_filesize, u, r)
            /\ Remember("filesize", u, r)
    /\ UNCHANGED <<cache_seq_filesize, heads>>

\* A call of the lru_cache wrapper of seq_filesize; a call that reaches
\* the server reaches one of servers.
CallSeqFilesize(u, servers) ==
    /\ IF Cached(cache_seq_filesize, u)
       THEN /\ cache_seq_filesize' = Touch(cache_seq_filesize, u)
            /\ Remember("seq_filesize", u,
                        Returned(Stored(cache_seq_filesize, u), <<>>))
       ELSE \E srv \in servers :
            LET r == seq_filesize(srv.b, srv.hs) IN
            /\ cache_seq_filesize' = Miss(cache_seq_filesize, u, r)
            /\ Remember("seq_filesize", u, r)
    /\ UNCHANGED <<cache_filesize, heads>>

(***************************************************************************)
(* The specifications.                                                     *)
(***************************************************************************)

vars == <<sizes, body, max_retries, cur, pc, file_size, downloaded, stop_pos,
          tries, response, err, iter, open, requests, windows, retried, probes,
          yielded, dl_seen, clean,
          spc, seq_num, segment_count, segment_data, started, finished,
          cache_filesize, cache_seq_filesize, heads, last, known, since>>

\* A call of stream(url, max_retries=m) on a resource of size S.
Init ==
    /\ \E S \in Sizes : sizes = [k \in {0} |-> S]
    /\ body = <<>>
    /\ max_retries \in 0 .. MaxRetries
    /\ cur = 0
    /\ pc = "loop"
    /\ file_size = default_range_size
    /\ downloaded = 0
    /\ stop_pos = 0
    /\ tries = 0
    /\ response = NoResponse
    /\ err = ""
    /\ iter = 0
    /\ open = {}
    /\ requests = <<>>
    /\ windows = <<>>
    /\ retried = 0
    /\ probes = 0
    /\ yielded = <<>>
    /\ dl_seen = <<>>
    /\ clean = TRUE
    /\ spc = "none"
    /\ seq_num = 0
    /\ segment_count = Unbound
    /\ segment_data = <<>>
    /\ started = <<0>>
    /\ finished = {}
    /\ NoSizeCalls

Next ==
    \/ LoopTest /\ UNCHANGED <<envVars, seqVars, sizeVars>>
    \/ RaiseMaxRetries /\ UNCHANGED <<envVars, seqVars, sizeVars>>
    \/ Attempt /\ UNCHANGED <<envVars, seqVars, sizeVars>>
    \/ Probe /\ UNCHANGED <<envVars, seqVars, sizeVars>>
    \/ Read /\ UNCHANGED <<envVars, spc, seq_num, segment_count, started,
                           finished, sizeVars>>

Spec == Init /\ [][Next]_vars

\* The consumer keeps pulling and the interpreter keeps executing: a step
\* of stream() that can be taken is taken.
SpecFair == Spec /\ WF_vars(Next)


\* A call of seq_stream(url, max_retries=m): segment 0 has the body, the
\* segments after it have sizes of their own.
InitSeq ==
    /\ body \in Bodies
    /\ \E f \in [1 .. MaxSeg -> SegSizes] :
        sizes = [k \in 0 .. MaxSeg |-> IF k = 0 THEN ByteLen(body) ELSE f[k]]
    /\ max_retries \in SeqRetries
    /\ cur = 0
    /\ pc = "loop"
    /\ file_size = default_range_size
    /\ downloaded = 0
    /\ stop_pos = 0
    /\ tries = 0
    /\ response = NoResponse
    /\ err = ""
    /\ iter = 0
    /\ open = {}
    /\ requests = <<>>
    /\ windows = <<>>
    /\ retried = 0
    /\ probes = 0
    /\ yielded = <<>>
    /\ dl_seen = <<>>
    /\ clean = TRUE
    /\ spc = "seg0"
    /\ seq_num = 0
    /\ segment_count = Unbound
    /\ segment_data = <<>>
    /\ started = <<0>>
    /\ finished = {}
    /\ NoSizeCalls

NextSeq ==
    \/ /\ spc \in {"seg0", "seg"}
       /\ Next
    \/ SeqParse
    \/ SeqLoop
    \/ SeqAdvance
    \/ SeqPropagate

SpecSeq == InitSeq /\ [][NextSeq]_vars

\* No stream() and no seq_stream() is running.
NoFetch ==
    /\ sizes = [k \in {0} |-> 0]
    /\ max_retries = 0
    /\ cur = 0
    /\ pc = "idle"
    /\ file_size = default_range_size
    /\ downloaded = 0
    /\ stop_pos = 0
    /\ tries = 0
    /\ response = NoResponse
    /\ err = ""
    /\ iter = 0
    /\ open = {}
    /\ requests = <<>>
    /\ windows = <<>>
    /\ retried = 0
    /\ probes = 0
    /\ yielded = <<>>
    /\ dl_seen = <<>>
    /\ clean = TRUE
    /\ spc = "none"
    /\ seq_num = 0
    /\ segment_count = Unbound
    /\ segment_data = <<>>
    /\ started = <<>>
    /\ finished = {}

\* A process that has resolved no size yet.
InitCache ==
    /\ NoFetch
    /\ body = <<>>
    /\ cache_filesize = <<>>
    /\ cache_seq_filesize = <<>>
    /\ heads = [k \in 0 .. MaxSeg |-> [o |-> "ok", n |-> 0]]
    /\ last = NoCall
    /\ known = [f \in Functions |-> [u \in URLs |-> Unbound]]
    /\ since = [f \in Functions |-> [u \in URLs |-> {}]]

\* Calls of filesize and seq_filesize, in any order, for any of the URLs; a
\* request may fail at one time and be answered at another.
NextCache ==
    \/ \E u \in URLs :
        CallFilesize(u) /\ UNCHANGED <<envVars, streamVars, seqVars>>
    \/ \E u \in URLs :
        CallSeqFilesize(u, SeqServers(u)) /\ UNCHANGED <<envVars, streamVars, seqVars>>

SpecCache == InitCache /\ [][NextCache]_vars

\* One call of seq_filesize, with an empty cache, to a server that answers
\* the GET for sq=0 with body and the requests as heads says.
InitSeqSize ==
    /\ NoFetch
    /\ body \in Bodies
    /\ cache_filesize = <<>>
    /\ cache_seq_filesize = <<>>
    /\ \E g \in GetOutcomes, f \in [1 .. MaxSeg -> HeadOutcomes] :
        heads = [k \in 0 .. MaxSeg |-> IF k = 0 THEN g ELSE f[k]]
    /\ last = NoCall
    /\ known = [f \in Functions |-> [u \in URLs |-> Unbound]]
    /\ since = [f \in Functions |-> [u \in URLs |-> {}]]

NextSeqSize ==
    /\ last = NoCall
    /\ CallSeqFilesize(1, {[b |-> body, hs |-> heads]})
    /\ UNCHANGED <<envVars, streamVars, seqVars>>

SpecSeqSize == InitSeqSize /\ [][NextSeqSize]_vars

(***************************************************************************)
(* Properties of stream (under Spec).                                      *)
(***************************************************************************)

\* The size of the resource stream() is fetching.
S == sizes[cur]

RECURSIVE TotalLength(_)
\* The number of bytes of a sequence of chunks.
TotalLength(chunks) ==
    IF chunks = <<>> THEN 0
    ELSE (chunks[1].hi - chunks[1].lo + 1) + TotalLength(Tail(chunks))

\* ceil(size / default_range_size)
NumWindows(size) == (size + default_range_size - 1) \div default_range_size

\* The windowed requests of the current iteration of stream's outer loop.
Attempts == SelectSeq(requests, LAMBDA r : r.kind = "range")

\* Every request so far was answered (the probe with a usable size) and no
\* read of a body failed.
TransportAlwaysSucceeded == clean

StrictlyIncreasing(q) == \A i \in 1 .. (Len(q) - 1) : q[i] < q[i + 1]

\* C1: with a transport that always succeeds and honours the window,
\* stream never fails and never stalls, it ends having yielded exactly S
\* bytes, every yielded chunk is non-empty and the values of downloaded seen
\* after the yields are strictly increasing.
C1_ExactLength ==
    TransportAlwaysSucceeded =>
        /\ pc # "error"
        /\ pc = "done" \/ ENABLED Next
        /\ pc = "done" => TotalLength(yielded) = S
        /\ \A i \in 1 .. Len(yielded) : yielded[i].hi >= yielded[i].lo
        /\ StrictlyIncreasing(dl_seen)
        /\ Len(dl_seen) = Len(yielded)

\* A fetch of two and a half chunks that ran to exhaustion without a fault.
C1_Witness ==
    /\ TransportAlwaysSucceeded
    /\ pc = "done"
    /\ S = 2 * default_range_size + default_range_size \div 2
    /\ Len(yielded) = 3

\* C2: in every window, at every moment, the attempts made for it are
\* recoverable failures followed by at most one success, never more than
\* max_retries + 1 of them, as many failures as tries counts; the window is
\* left only after a success; MaxRetriesExceeded is raised after exactly
\* max_retries + 1 failed attempts for the window and nothing is issued
\* after it.
C2_RetryBudget ==
    LET a == Attempts IN
    /\ err = "MaxRetriesExceeded" => iter >= 1
    /\ iter >= 1 =>
        /\ Len(a) <= max_retries + 1
        /\ \A i \in 1 .. Len(a) : a[i].it = iter
        /\ \A i \in 1 .. (Len(a) - 1) : a[i].outcome \in {"timeout", "incomplete"}
        /\ pc = "retry" =>
                \A i \in 1 .. Len(a) : a[i].outcome \in {"timeout", "incomplete"}
        /\ pc \in {"probe", "read", "loop", "done"} =>
                Len(a) >= 1 /\ a[Len(a)].outcome = "ok"
        /\ err = "MaxRetriesExceeded" =>
                /\ Len(a) = max_retries + 1
                /\ a[Len(a)].outcome \in {"timeout", "incomplete"}
                /\ ~ENABLED Next

\* The second window obtained after max_retries = 2 timeouts, one failure
\* having been swallowed for the first window.
C2_Witness ==
    /\ max_retries = 2
    /\ iter = 2
    /\ pc = "probe"
    /\ retried = 3
    /\ Len(Attempts) = 3
    /\ Attempts[1].outcome = "timeout"
    /\ Attempts[2].outcome = "timeout"
    /\ Attempts[3].outcome = "ok"

\* C3: an attempt that follows a recoverable failure asks for the same
\* window with downloaded unchanged, and the chunks yielded so far are, in
\* order and without gap or overlap, the bytes 0 .. downloaded-1 of the
\* resource.
C3_NoCorruption ==
    /\ \A i \in 1 .. (Len(requests) - 1) :
        (requests[i].kind = "range" /\ requests[i].outcome \in {"timeout", "incomplete"}
            /\ requests[i + 1].it = requests[i].it) =>
            /\ requests[i + 1].kind = "range"
            /\ requests[i + 1].lo = requests[i].lo
            /\ requests[i + 1].hi = requests[i].hi
            /\ requests[i + 1].dl = requests[i].dl
    /\ \A i \in 1 .. Len(requests) :
        requests[i].kind = "range" => requests[i].lo = requests[i].dl
    /\ TotalLength(yielded) = downloaded
    /\ \A i \in 1 .. Len(yielded) :
        /\ yielded[i].lo = (IF i = 1 THEN 0 ELSE yielded[i - 1].hi + 1)
        /\ yielded[i].hi >= yielded[i].lo
        /\ yielded[i].hi <= S - 1
    /\ yielded # <<>> => yielded[Len(yielded)].hi = downloaded - 1

\* Two chunks yielded, the second after a timeout and a retry of its
\* window, a failure having been swallowed for the first window too.
C3_Witness ==
    /\ Len(yielded) = 2
    /\ retried = 2
    /\ \E i \in 1 .. (Len(requests) - 1) :
        /\ requests[i].kind = "range"
        /\ requests[i].it = 2
        /\ requests[i].outcome = "timeout"
        /\ requests[i + 1].outcome = "ok"

\* C9: for S >= default_range_size and a transport that always succeeds,
\* the i-th window requested is [(i-1)*C, min(i*C, S) - 1], each window is
\* requested once, there are never more than ceil(S/C) windows, and a
\* finished fetch has requested exactly ceil(S/C) and yielded exactly
\* ceil(S/C) chunks, downloaded being min(i*C, S) after the i-th.
C9_Windows ==
    (TransportAlwaysSucceeded /\ S >= default_range_size) =>
        /\ Len(windows) <= NumWindows(S)
        /\ \A i \in 1 .. Len(windows) :
            /\ windows[i].lo = (i - 1) * default_range_size
            /\ windows[i].hi = Min(i * default_range_size, S) - 1
        /\ Len(Attempts) <= 1
        /\ \A i \in 1 .. Len(Attempts) :
            /\ Attempts[i].lo = windows[Len(windows)].lo
            /\ Attempts[i].hi = windows[Len(windows)].hi
        /\ \A i \in 1 .. Len(dl_seen) :
            dl_seen[i] = Min(i * default_range_size, S)
        /\ pc = "done" =>
            /\ Len(windows) = NumWindows(S)
            /\ Len(yielded) = NumWindows(S)

\* A resource of exactly two chunks fetched to the end in two chunks.
C9_Witness ==
    /\ TransportAlwaysSucceeded
    /\ S = 2 * default_range_size
    /\ pc = "done"
    /\ Len(yielded) = 2
    /\ Len(windows) = 2

\* C10: no fetch ends with a timeout reaching the consumer.
C10_NoRawTimeout == err # "timeout"


\* C11: an incomplete read is never what ends the fetch: it is retried, and
\* only MaxRetriesExceeded reports that the retries ran out.
C11_IncompleteRecovered == err # "IncompleteRead"

\* C12: a windowed request that fails with a URLError other than a timeout
\* is the last thing the fetch does: it is the last request, the error is
\* raised with the attempts used so far left as they were, and no step
\* follows (no request, no yield), whatever max_retries allows.
C12_FatalNotRetried ==
    \A i \in 1 .. Len(requests) :
        (requests[i].kind = "range" /\ requests[i].outcome = "urlerror") =>
            /\ i = Len(requests)
            /\ pc = "error"
            /\ err = "URLError"
            /\ tries = i - 1
            /\ ~ENABLED Next

\* The second window fails for good at its second attempt, with one retry
\* of max_retries = 2 left unused.
C12_Witness ==
    /\ max_retries = 2
    /\ iter = 2
    /\ tries = 1
    /\ err = "URLError"
    /\ Len(yielded) = 1
    /\ requests[Len(requests)].kind = "range"
    /\ requests[Len(requests)].outcome = "urlerror"

\* C13: a probe answered without a Content-Length, or with one that is not
\* an integer, raises nothing and leaves file_size at the placeholder.
C13_ProbeFailureTolerated ==
    \A i \in 1 .. Len(requests) :
        (requests[i].kind = "probe"
            /\ requests[i].outcome \in {"missing", "unparseable"}) =>
            /\ err \notin {"TypeError", "KeyError", "ValueError"}
            /\ file_size = default_range_size

\* C14: the probe is issued in the first iteration of the loop only, hence
\* at most once in a fetch.
C14_ProbeOnce ==
    /\ probes <= 1
    /\ \A i \in 1 .. Len(requests) :
        requests[i].kind = "probe" => requests[i].it = 1

C16_NeverDecreases ==
    [][/\ file_size # default_range_size => file_size' = file_size
       /\ file_size' >= file_size]_vars

\* C16, amended: file_size changes at most once after its initialisation to
\* the placeholder, to the size the probe reports; it does not decrease when
\* the resource is at least one chunk long (and drops to S when S is
\* smaller than the chunk size).
C16_RefinedOnce ==
    [][/\ file_size # default_range_size => file_size' = file_size
       /\ file_size' # file_size => file_size' = S
       /\ S >= default_range_size => file_size' >= file_size]_vars

\* A fetch of half a chunk has ended with file_size lowered to the size.
C16_Witness ==
    /\ S = default_range_size \div 2
    /\ file_size = S
    /\ pc = "done"
    /\ Len(yielded) = 1

\* C19, as claimed: no request is issued while a response obtained earlier
\* has its body unread.
C19_OneInFlight ==
    \A i \in 1 .. Len(requests) : requests[i].pending = {}

\* C19, amended: no windowed request is issued while the response of an
\* earlier windowed request has its body unread; the probe is issued while
\* the response of the window just obtained is still unread, and the
\* probe's own response is never read, so that at most two responses are
\* open at a time.
C19_WindowsDrained ==
    /\ open \subseteq {"response", "resp"}
    /\ \A i \in 1 .. Len(requests) :
        /\ requests[i].kind = "range" => "response" \notin requests[i].pending
        /\ requests[i].kind = "probe" => "response" \in requests[i].pending

\* The second window is requested, the first one's body read to its end and
\* the probe's response still unread.
C19_Witness ==
    /\ iter = 2
    /\ Len(yielded) = 1
    /\ requests # <<>>
    /\ requests[1].kind = "range"
    /\ requests[1].outcome = "ok"
    /\ requests[1].pending = {"resp"}


(***************************************************************************)
(* Properties of seq_stream (under SpecSeq).                               *)
(***************************************************************************)

\* The counts of the lines of b that match Segment-Count: <digits>.
AdvertisedCounts(b) ==
    LET lines == Split(b) IN
    {DigitsToInt(Group1(lines[i])) : i \in {j \in 1 .. Len(lines) : Matches(lines[j])}}

RECURSIVE SumSizes(_)
\* The sum of the sizes of the segments 0 .. n.
SumSizes(n) == IF n < 0 THEN 0 ELSE sizes[n] + SumSizes(n - 1)

\* C4: when segment 0 advertises the count N, stream() is started for the
\* segments 0, 1, ..., N in this order and for no other; the stream() of a
\* segment k > 0 is started only after that of k-1 ran to exhaustion and
\* after the count was read; every request is for the segment whose stream()
\* is running; the chunks are yielded segment by segment, each segment's in
\* offset order; when seq_stream returns all of 0..N were fetched, and with a
\* transport that never failed the yielded length is the sum of their sizes.
C4_SegmentOrder ==
    \A N \in 0 .. MaxSeg :
        AdvertisedCounts(body) = {N} =>
            /\ Len(started) <= N + 1
            /\ \A i \in 1 .. Len(started) : started[i] = i - 1
            /\ \A i \in 2 .. Len(started) :
                /\ (started[i] - 1) \in finished
                /\ segment_count = N
            /\ cur = started[Len(started)]
            /\ \A i \in 1 .. Len(requests) : requests[i].sq = cur
            /\ \A i \in 1 .. Len(yielded) :
                /\ yielded[i].sq \in 0 .. cur
                /\ yielded[i].sq # cur => yielded[i].sq \in finished
                /\ i > 1 => yielded[i - 1].sq <= yielded[i].sq
                /\ yielded[i].lo =
                     (IF i > 1 /\ yielded[i - 1].sq = yielded[i].sq
                      THEN yielded[i - 1].hi + 1 ELSE 0)
            /\ spc # "error" \/ err # "UnboundLocalError"
            /\ spc = "done" =>
                /\ Len(started) = N + 1
                /\ finished = 0 .. N
                /\ clean => TotalLength(yielded) = SumSizes(N)

\* A fault-free fetch of segments 0, 1, 2, segment 1 needing two windows.
C4_Witness ==
    /\ AdvertisedCounts(body) = {2}
    /\ spc = "done"
    /\ clean
    /\ started = <<0, 1, 2>>
    /\ sizes[1] = default_range_size + 1
    /\ Len(yielded) >= 4


\* The count of the first line of b that matches Segment-Count: <digits>.
FirstCount(b) ==
    LET lines == Split(b)
        k == CHOOSE i \in 1 .. Len(lines) :
                Matches(lines[i]) /\ \A j \in 1 .. (i - 1) : ~Matches(lines[j])
    IN DigitsToInt(Group1(lines[k]))

\* C17: when several lines of segment 0's body match with different
\* numbers, the count seq_stream uses is that of the first matching line:
\* it is what segment_count holds once the body is scanned, and a finished
\* seq_stream has fetched the segments 0 .. that count.
C17_FirstMatch ==
    (Cardinality(AdvertisedCounts(body)) > 1 /\ 0 \in finished) =>
        /\ segment_count = FirstCount(body)
        /\ spc = "done" => finished = 0 .. FirstCount(body)

\* C18: when no line of segment 0's body matches, seq_stream, segment 0
\* fetched, starts no further segment and ends in RegexMatchError, in no
\* other error.
C18_PatternNotMatched ==
    (AdvertisedCounts(body) = {} /\ 0 \in finished) =>
        /\ started = <<0>>
        /\ spc # "done"
        /\ spc = "error" => err = "RegexMatchError"


(***************************************************************************)
(* Properties of the size resolvers (under SpecCache and SpecSeqSize).     *)
(***************************************************************************)

CacheOf(f) == IF f = "filesize" THEN cache_filesize ELSE cache_seq_filesize

\* C5: a call of filesize or seq_filesize for a URL for which the function
\* has returned a value, no other URL having returned a value from it since
\* (as in a call that directly follows the first), returns the same value
\* and issues no request.
C5_Idempotent ==
    (last.before # Unbound /\ last.others = 0) =>
        /\ last.status = "ok"
        /\ last.value = last.before
        /\ last.reqs = <<>>

\* seq_filesize called again for a URL it has returned 16 + 2 bytes for.
C5_Witness ==
    /\ last.fn = "seq_filesize"
    /\ last.url = 2
    /\ last.before = ByteLen(<<SC(<<1>>)>>) + 2
    /\ last.others = 0
    /\ last.status = "ok"

HeadsOf(reqs) ==
    LET hr == SelectSeq(reqs, LAMBDA r : r.method = "HEAD")
    IN [i \in 1 .. Len(hr) |-> hr[i].sq]

\* C7: when the GET for sq=0 is answered with a body that holds no
\* Segment-Count line, seq_filesize raises RegexMatchError('seq_filesize',
\* pattern) having issued that GET and nothing else.
C7_NoPatternNoHead ==
    (last.fn = "seq_filesize" /\ heads[0].o = "ok" /\ AdvertisedCounts(body) = {}) =>
        /\ last.status = "error"
        /\ last.err = "RegexMatchError('seq_filesize', segment_regex)"
        /\ last.reqs = <<[method |-> "GET", sq |-> 0]>>

\* seq_filesize has failed on a body of two lines without the pattern.
C7_Witness ==
    /\ last.fn = "seq_filesize"
    /\ body = <<X, CRLF, X>>
    /\ last.err = "RegexMatchError('seq_filesize', segment_regex)"
    /\ \E k \in 1 .. MaxSeg : heads[k].o = "ok"

RECURSIVE SumHeads(_)
\* The sum of the Content-Length values of the segments 1 .. n.
SumHeads(n) == IF n < 1 THEN 0 ELSE heads[n].n + SumHeads(n - 1)

\* C8: when the body advertises the count N, N >= 0, and the GET and the
\* HEAD requests for 1..N are answered with a Content-Length, seq_filesize
\* returns len(body) + the sum of these, having issued the HEAD requests for
\* sq = 1, ..., N in this order.
C8_CountedHeads ==
    \A N \in 0 .. MaxSeg :
        (/\ last.fn = "seq_filesize"
         /\ AdvertisedCounts(body) = {N}
         /\ \A k \in 0 .. N : heads[k].o = "ok") =>
            /\ last.status = "ok"
            /\ last.value = ByteLen(body) + SumHeads(N)
            /\ HeadsOf(last.reqs) = [i \in 1 .. N |-> i]

\* The first request the body of f issues.
FirstRequest(f) ==
    IF f = "filesize" THEN [method |-> "HEAD", sq |-> Unbound]
    ELSE [method |-> "GET", sq |-> 0]

\* C20: a call of filesize or seq_filesize that fails leaves the cache of
\* the function as it was, with no entry for the URL, and the call that
\* follows a failed one for the same URL issues its requests again, from
\* the first one.
C20_FailureNotCached ==
    [][\A f \in Functions :
        /\ (last'.fn = f /\ last'.status = "error" /\ last' # last) =>
                /\ CacheOf(f)' = CacheOf(f)
                /\ ~Cached(CacheOf(f)', last'.url)
                /\ last'.reqs # <<>>
        /\ (last.status = "error" /\ last'.fn = last.fn /\ last'.url = last.url) =>
                /\ last'.reqs # <<>>
                /\ last'.reqs[1] = FirstRequest(last.fn)]_vars

\* seq_filesize has failed at the HEAD for segment 1, the length of segment
\* 0 already summed, while its cache holds the size of another URL.
C20_Witness ==
    /\ last.fn = "seq_filesize"
    /\ last.status = "error"
    /\ last.err = "KeyError"
    /\ Len(last.reqs) = 2
    /\ cache_seq_filesize # <<>>
    /\ ~Cached(cache_seq_filesize, last.url)

====
